---------------------------- MODULE Spec2Model ----------------------------
(***************************************************************************)
(* Model of the video ingest and dispatch core of scrcpy:                  *)
(*   app/src/recorder.c      the recorder sink and its thread              *)
(*   app/src/video_buffer.c  the triple-buffered frame handoff             *)
(*   app/src/stream.c        the stream thread                             *)
(*   app/src/decoder.c       the decoder sink                              *)
(*                                                                         *)
(* Three specifications share the variables:                               *)
(*   SpecRec     the recorder driven through recorder_open / recorder_push *)
(*               / recorder_close by a client thread                       *)
(*   SpecVB      the video buffer with its producer and consumer threads   *)
(*   SpecStream  run_stream with its attached sinks                        *)
(* Every critical section (code between sc_mutex_lock and sc_mutex_unlock) *)
(* is one action; code outside the mutex is a separate action, so that the *)
(* other thread may run in between.                                        *)
(***************************************************************************)
EXTENDS Integers, Sequences, FiniteSets, TLC

\* ------------------------------------------------------------------ bounds
\* number of recorder_push calls the client thread makes
MaxPush == 4
\* timestamps carried by pushed packets are drawn from 1..MaxPts
MaxPts == 2

\* number of pictures the decoder emits
MaxOffers == 5

\* number of framed items the socket delivers
MaxItems == 2
\* number of packets the parser emits from one payload
MaxNal == 2

\* width in bits of the model's timestamps (the program's are 64 bits wide)
PtsBits == 8

\* ------------------------------------------------------- program constants
\* libavutil's "no timestamp" value, as tested in recorder_write: the least
\* signed integer of the timestamp width (INT64_MIN)
AV_NOPTS_VALUE == -(2^(PtsBits - 1))
\* the arbitrary duration given to the last packet
LAST_DURATION == 100000

VARIABLES
    \* struct recorder
    queue,            \* recorder->queue: FIFO of record_packet
    stopped,          \* recorder->stopped
    failed,           \* recorder->failed
    header_written,   \* recorder->header_written
    previous,         \* recorder->previous (the carry slot)
    \* the recorder thread
    rpc,              \* position of run_recorder
    rec,              \* run_recorder's local rec
    \* the output file (the muxing context's effects)
    file,             \* sequence of operations performed on recorder->ctx
    \* the client thread of the recorder (a packet source)
    cpc,              \* position of the client
    \* history
    pushed,           \* packets of every record enqueued, in enqueue order
    pushret,          \* return value of every recorder_push call, in order
    dequeued,         \* ids of the records taken from the queue, in order
    write_failed,     \* some recorder_write call returned false
    deleted,          \* ids of the records passed to record_packet_delete
    nomem,            \* number of record_packet_new calls that returned NULL
    last_failed,      \* the write of the last packet (lines 144-150) failed
    trailer_failed,   \* av_write_trailer failed
    \* struct video_buffer
    producer_frame,   \* vb->producer_frame: the frame object in that slot
    pending_frame,    \* vb->pending_frame
    consumer_frame,   \* vb->consumer_frame
    frames,           \* the picture each frame object holds (0: unreferenced)
    pending_frame_consumed,  \* vb->pending_frame_consumed
    has_on_frame_skipped,    \* vb->cbs->on_frame_skipped is not NULL
    \* the producer thread, inside video_buffer_producer_offer_frame
    ppc,              \* position of the producer
    skipped,          \* offer_frame's local skipped
    \* history
    decoded,          \* number of pictures the decoder has emitted
    published,        \* number of offer_frame critical sections executed
    cb_log,           \* per completed offer_frame: skipped, callbacks invoked
    events,           \* on_frame_available notifications not yet handled
    taken,            \* per take_frame: picture obtained, latest published
    avail_since_take, \* on_frame_available calls since the last take_frame
    take_assert_failed, \* take_frame's assertion was violated
    \* struct stream
    has_decoder,      \* stream->decoder is not NULL
    has_recorder,     \* stream->recorder is not NULL
    receiver_pts,     \* stream->receiver_state.pts
    codec_ctx,        \* stream->codec_ctx is allocated
    \* the stream thread
    spc,              \* position of run_stream
    parse_left,       \* packets the parser still emits from the payload
    bufs,             \* payload buffers allocated and not freed
    \* history
    received,         \* pts of every meta-header read, in order
    delivered,        \* packets handed to the recorder: item, pts
    sink_log,         \* opens, closes, allocations and frees of run_stream
    exit_path,        \* why run_stream left
    stop_events       \* number of STREAM_STOPPED events posted

recVars == <<queue, stopped, failed, header_written, previous, rpc, rec, file,
             cpc, pushed, pushret, dequeued, write_failed, deleted, nomem,
             last_failed, trailer_failed>>

vbVars == <<producer_frame, pending_frame, consumer_frame, frames,
            pending_frame_consumed, has_on_frame_skipped, ppc, skipped,
            decoded, published, cb_log, events, taken, avail_since_take,
            take_assert_failed>>

strVars == <<has_decoder, has_recorder, receiver_pts, codec_ctx, spc,
             parse_left, bufs, received, delivered, sink_log, exit_path,
             stop_events>>

vars == <<recVars, vbVars, strVars>>

\* ------------------------------------------------------------ packets
\* A null record pointer.
NULL == [id |-> 0, pts |-> AV_NOPTS_VALUE, duration |-> 0]

PtsValues == {AV_NOPTS_VALUE} \cup (1..MaxPts)

\* record_packet_new: a duplicate of the packet; id is its arrival rank.
record_packet_new(id, pts) == [id |-> id, pts |-> pts, duration |-> 0]

\* ------------------------------------------------------------ recorder_write
Header(packet) == [op |-> "header", id |-> packet.id, pts |-> packet.pts,
                   duration |-> packet.duration]
Frame(packet) == [op |-> "frame", id |-> packet.id, pts |-> packet.pts,
                  duration |-> packet.duration]
Trailer == [op |-> "trailer", id |-> 0, pts |-> AV_NOPTS_VALUE, duration |-> 0]

\* recorder_write_header: the packet's bytes become the extradata, then the
\* header is written; io is whether av_malloc and avformat_write_header
\* succeed.
recorder_write_header(f, packet, io) ==
    IF io THEN [ok |-> TRUE, file |-> Append(f, Header(packet))]
          ELSE [ok |-> FALSE, file |-> f]

\* recorder_write with a slip: the config packet is also emitted as a frame.
recorder_write_cfgframe(hw, f, packet, io) ==
    IF ~hw
    THEN IF packet.pts # AV_NOPTS_VALUE
         THEN [ok |-> FALSE, hw |-> hw, file |-> f]
         ELSE LET h == recorder_write_header(f, packet, io)
              IN  [ok |-> h.ok, hw |-> h.ok,
                   file |-> IF h.ok THEN Append(h.file, Frame(packet)) ELSE f]
    ELSE IF io THEN [ok |-> TRUE, hw |-> hw, file |-> Append(f, Frame(packet))]
               ELSE [ok |-> FALSE, hw |-> hw, file |-> f]

\* recorder_write with a slip: a first packet that carries a pts is accepted
\* as if it were the config packet.
recorder_write_anyfirst(hw, f, packet, io) ==
    IF ~hw
    THEN LET h == recorder_write_header(f, packet, io)
         IN  [ok |-> h.ok, hw |-> h.ok, file |-> h.file]
    ELSE IF packet.pts = AV_NOPTS_VALUE
         THEN [ok |-> TRUE, hw |-> hw, file |-> f]
         ELSE IF io THEN [ok |-> TRUE, hw |-> hw, file |-> Append(f, Frame(packet))]
                    ELSE [ok |-> FALSE, hw |-> hw, file |-> f]

\* recorder_write: result and new values of header_written and of the file,
\* for a call with header_written = hw; io is whether the library call made
\* (if any) succeeds.
recorder_write(hw, f, packet, io) ==
    IF ~hw
    THEN IF packet.pts # AV_NOPTS_VALUE
         THEN [ok |-> FALSE, hw |-> hw, file |-> f]
         ELSE LET h == recorder_write_header(f, packet, io)
              IN  [ok |-> h.ok, hw |-> h.ok, file |-> h.file]
    ELSE IF packet.pts = AV_NOPTS_VALUE
         THEN [ok |-> TRUE, hw |-> hw, file |-> f]
         ELSE IF io THEN [ok |-> TRUE, hw |-> hw, file |-> Append(f, Frame(packet))]
                    ELSE [ok |-> FALSE, hw |-> hw, file |-> f]

\* sc_cond_signal with a slip: the signal never wakes the waiting thread.
Signalled_lost(pc) == pc

\* sc_cond_signal(&recorder->queue_cond): wakes the recorder thread if it is
\* blocked in sc_cond_wait; lost otherwise.  A woken thread takes the mutex
\* again and evaluates the condition of its while loop again.
Signalled(pc) == IF pc = "wait" THEN "lock" ELSE pc

\* ------------------------------------------------------------ recorder thread
\* lines 129-133: lock, and block on the condition variable while there is
\* nothing to do (the mutex is released while waiting).
RecWait ==
    /\ rpc = "lock"
    /\ ~stopped /\ queue = <<>>
    /\ rpc' = "wait"
    /\ UNCHANGED <<nomem, last_failed, trailer_failed,
                   queue, stopped, failed, header_written, previous, rec, file,
                   cpc, pushed, pushret, dequeued, write_failed, deleted,
                   vbVars, strVars>>

\* lines 138-139 with a slip: the loop is left as soon as stopped is set,
\* whatever the queue holds.
RecStop_nodrain ==
    /\ rpc = "lock"
    /\ stopped
    /\ rpc' = "last"
    /\ UNCHANGED <<nomem, last_failed, trailer_failed,
                   queue, stopped, failed, header_written, previous, rec, file,
                   cpc, pushed, pushret, dequeued, write_failed, deleted,
                   vbVars, strVars>>

\* lines 138-139: stopped and nothing left in the queue: unlock and go to the
\* carry-slot drain.
RecStop ==
    /\ rpc = "lock"
    /\ stopped /\ queue = <<>>
    /\ rpc' = "last"
    /\ UNCHANGED <<nomem, last_failed, trailer_failed,
                   queue, stopped, failed, header_written, previous, rec, file,
                   cpc, pushed, pushret, dequeued, write_failed, deleted,
                   vbVars, strVars>>

\* RecTake with a slip: the queue is served last in, first out.
RecTake_lifo ==
    /\ rpc = "lock"
    /\ queue # <<>>
    /\ rec' = queue[Len(queue)]
    /\ queue' = SubSeq(queue, 1, Len(queue) - 1)
    /\ dequeued' = Append(dequeued, queue[Len(queue)].id)
    /\ rpc' = "process"
    /\ UNCHANGED <<nomem, last_failed, trailer_failed,
                   stopped, failed, header_written, previous, file,
                   cpc, pushed, pushret, write_failed, deleted,
                   vbVars, strVars>>

\* lines 156-159: take the head of the queue and unlock.
RecTake ==
    /\ rpc = "lock"
    /\ queue # <<>>
    /\ rec' = Head(queue)
    /\ queue' = Tail(queue)
    /\ dequeued' = Append(dequeued, Head(queue).id)
    /\ rpc' = "process"
    /\ UNCHANGED <<nomem, last_failed, trailer_failed,
                   stopped, failed, header_written, previous, file,
                   cpc, pushed, pushret, write_failed, deleted,
                   vbVars, strVars>>

\* InferDuration with a slip: the operands of the subtraction are exchanged.
InferDuration_swapped(prev, next) ==
    IF next.pts # AV_NOPTS_VALUE /\ prev.pts # AV_NOPTS_VALUE
    THEN [prev EXCEPT !.duration = prev.pts - next.pts]
    ELSE prev

\* lines 171-175: the duration of the previous packet, known once the next one
\* is there.
InferDuration(prev, next) ==
    IF next.pts # AV_NOPTS_VALUE /\ prev.pts # AV_NOPTS_VALUE
    THEN [prev EXCEPT !.duration = next.pts - prev.pts]
    ELSE prev

\* lines 162-188 (outside the mutex): rec moves to the carry slot, the packet
\* it replaces is written and deleted.
RecProcess ==
    /\ rpc = "process"
    /\ previous' = rec
    /\ rec' = NULL
    /\ IF previous = NULL
       THEN /\ rpc' = "lock"
            /\ UNCHANGED <<header_written, file, write_failed, deleted>>
       ELSE \E io \in BOOLEAN :
              LET w == recorder_write(header_written, file,
                                      InferDuration(previous, rec), io)
              IN  /\ header_written' = w.hw
                  /\ file' = w.file
                  /\ write_failed' = (write_failed \/ ~w.ok)
                  /\ deleted' = Append(deleted, previous.id)
                  /\ rpc' = IF w.ok THEN "lock" ELSE "fail"
    /\ UNCHANGED <<nomem, last_failed, trailer_failed,
                   queue, stopped, failed, cpc, pushed, pushret, dequeued,
                   vbVars, strVars>>

\* recorder_queue_clear with a slip: only the head of the queue is dropped.
recorder_queue_clear_head(q, del) ==
    IF q = <<>> THEN [queue |-> q, deleted |-> del]
    ELSE [queue |-> Tail(q), deleted |-> Append(del, Head(q).id)]

\* recorder_queue_clear: every queued record is taken and deleted.
recorder_queue_clear(q, del) ==
    [queue |-> <<>>, deleted |-> del \o [i \in 1..Len(q) |-> q[i].id]]

\* lines 182-187: under the mutex, set failed and discard the pending packets.
RecFail ==
    /\ rpc = "fail"
    /\ failed' = TRUE
    /\ LET c == recorder_queue_clear(queue, deleted)
       IN  queue' = c.queue /\ deleted' = c.deleted
    /\ rpc' = "final"
    /\ UNCHANGED <<nomem, last_failed, trailer_failed,
                   stopped, header_written, previous, rec, file,
                   cpc, pushed, pushret, dequeued, write_failed,
                   vbVars, strVars>>

\* lines 140-153 with a slip: a failure to write the last packet sets failed.
RecLast_strict ==
    /\ rpc = "last"
    /\ IF previous # NULL
       THEN \E io \in BOOLEAN :
              LET w == recorder_write(header_written, file,
                          [previous EXCEPT !.duration = LAST_DURATION], io)
              IN  /\ header_written' = w.hw
                  /\ file' = w.file
                  /\ write_failed' = (write_failed \/ ~w.ok)
                  /\ last_failed' = ~w.ok
                  /\ failed' = (failed \/ ~w.ok)
                  /\ deleted' = Append(deleted, previous.id)
       ELSE UNCHANGED <<header_written, file, write_failed, last_failed,
                        failed, deleted>>
    /\ rpc' = "final"
    /\ UNCHANGED <<nomem, trailer_failed,
                   queue, stopped, previous, rec,
                   cpc, pushed, pushret, dequeued,
                   vbVars, strVars>>

\* RecLast with a slip: the last packet keeps the duration it has.
RecLast_keepduration ==
    /\ rpc = "last"
    /\ IF previous # NULL
       THEN \E io \in BOOLEAN :
              LET w == recorder_write(header_written, file, previous, io)
              IN  /\ header_written' = w.hw
                  /\ file' = w.file
                  /\ write_failed' = (write_failed \/ ~w.ok)
                  /\ last_failed' = ~w.ok
                  /\ deleted' = Append(deleted, previous.id)
       ELSE UNCHANGED <<header_written, file, write_failed, last_failed,
                        deleted>>
    /\ rpc' = "final"
    /\ UNCHANGED <<nomem, trailer_failed,
                   queue, stopped, failed, previous, rec,
                   cpc, pushed, pushret, dequeued,
                   vbVars, strVars>>

\* lines 140-153: the packet left in the carry slot gets an arbitrary
\* duration and is written; a failure is only logged.
RecLast ==
    /\ rpc = "last"
    /\ IF previous # NULL
       THEN \E io \in BOOLEAN :
              LET w == recorder_write(header_written, file,
                          [previous EXCEPT !.duration = LAST_DURATION], io)
              IN  /\ header_written' = w.hw
                  /\ file' = w.file
                  /\ write_failed' = (write_failed \/ ~w.ok)
                  /\ last_failed' = ~w.ok
                  /\ deleted' = Append(deleted, previous.id)
       ELSE UNCHANGED <<header_written, file, write_failed, last_failed,
                        deleted>>
    /\ rpc' = "final"
    /\ UNCHANGED <<nomem, trailer_failed,
                   queue, stopped, failed, previous, rec,
                   cpc, pushed, pushret, dequeued,
                   vbVars, strVars>>

\* lines 191-202 with a slip: the trailer is written whenever the header was,
\* failed or not.
RecFinal_anyway ==
    /\ rpc = "final"
    /\ IF header_written
       THEN \E io \in BOOLEAN :
              /\ file' = IF io THEN Append(file, Trailer) ELSE file
              /\ failed' = (failed \/ ~io)
              /\ trailer_failed' = ~io
       ELSE failed' = TRUE /\ UNCHANGED <<file, trailer_failed>>
    /\ rpc' = "done"
    /\ UNCHANGED <<nomem, last_failed,
                   queue, stopped, header_written, previous, rec,
                   cpc, pushed, pushret, dequeued, write_failed, deleted,
                   vbVars, strVars>>

\* lines 191-202: the trailer, or the recording is marked failed.
RecFinal ==
    /\ rpc = "final"
    /\ IF ~failed
       THEN IF header_written
            THEN \E io \in BOOLEAN :
                   /\ file' = IF io THEN Append(file, Trailer) ELSE file
                   /\ failed' = ~io
                   /\ trailer_failed' = ~io
            ELSE failed' = TRUE /\ UNCHANGED <<file, trailer_failed>>
       ELSE UNCHANGED <<failed, file, trailer_failed>>
    /\ rpc' = "done"
    /\ UNCHANGED <<nomem, last_failed,
                   queue, stopped, header_written, previous, rec,
                   cpc, pushed, pushret, dequeued, write_failed, deleted,
                   vbVars, strVars>>

\* ------------------------------------------------------------ client thread
\* recorder_open: the muxer, the context, the stream and the file, then the
\* recorder thread is started; any failure returns false with no thread.
RecorderOpen ==
    /\ cpc = "open"
    /\ \E ok \in BOOLEAN :
         IF ok THEN cpc' = "run" /\ rpc' = "lock"
               ELSE cpc' = "openfail" /\ rpc' = rpc
    /\ UNCHANGED <<nomem, last_failed, trailer_failed,
                   queue, stopped, failed, header_written, previous, rec, file,
                   pushed, pushret, dequeued, write_failed, deleted,
                   vbVars, strVars>>

\* recorder_push with a slip: the record is put at the head of the queue.
RecorderPush_front ==
    /\ cpc = "run"
    /\ Len(pushret) < MaxPush
    /\ ~stopped
    /\ IF failed
       THEN /\ pushret' = Append(pushret, FALSE)
            /\ UNCHANGED <<queue, pushed, rpc, nomem>>
       ELSE \E alloc \in BOOLEAN, pts \in PtsValues :
              IF alloc
              THEN LET r == record_packet_new(Len(pushed) + 1, pts)
                   IN  /\ queue' = <<r>> \o queue
                       /\ pushed' = Append(pushed, r)
                       /\ rpc' = Signalled(rpc)
                       /\ pushret' = Append(pushret, TRUE)
                       /\ nomem' = nomem
              ELSE /\ pushret' = Append(pushret, FALSE)
                   /\ nomem' = nomem + 1
                   /\ UNCHANGED <<queue, pushed, rpc>>
    /\ UNCHANGED <<last_failed, trailer_failed,
                   stopped, failed, header_written, previous, rec, file,
                   cpc, dequeued, write_failed, deleted,
                   vbVars, strVars>>

\* recorder_push: one critical section.  The client may push any packet, at
\* any time before it closes the recorder, also after a push returned false.
RecorderPush ==
    /\ cpc = "run"
    /\ Len(pushret) < MaxPush
    /\ ~stopped                                   \* assert(!recorder->stopped)
    /\ IF failed
       THEN /\ pushret' = Append(pushret, FALSE)
            /\ UNCHANGED <<queue, pushed, rpc, nomem>>
       ELSE \E alloc \in BOOLEAN, pts \in PtsValues :
              IF alloc
              THEN LET r == record_packet_new(Len(pushed) + 1, pts)
                   IN  /\ queue' = Append(queue, r)
                       /\ pushed' = Append(pushed, r)
                       /\ rpc' = Signalled(rpc)
                       /\ pushret' = Append(pushret, TRUE)
                       /\ nomem' = nomem
              ELSE /\ pushret' = Append(pushret, FALSE)
                   /\ nomem' = nomem + 1
                   /\ UNCHANGED <<queue, pushed, rpc>>
    /\ UNCHANGED <<last_failed, trailer_failed,
                   stopped, failed, header_written, previous, rec, file,
                   cpc, dequeued, write_failed, deleted,
                   vbVars, strVars>>

\* recorder_close, lines 278-281: set stopped and signal.
RecorderClose ==
    /\ cpc = "run"
    /\ stopped' = TRUE
    /\ rpc' = Signalled(rpc)
    /\ cpc' = "join"
    /\ UNCHANGED <<nomem, last_failed, trailer_failed,
                   queue, failed, header_written, previous, rec, file,
                   pushed, pushret, dequeued, write_failed, deleted,
                   vbVars, strVars>>

\* recorder_close, lines 283-286: the join returns once the thread has ended;
\* the file is closed.
RecorderJoin ==
    /\ cpc = "join"
    /\ rpc = "done"
    /\ cpc' = "closed"
    /\ UNCHANGED <<nomem, last_failed, trailer_failed,
                   queue, stopped, failed, header_written, previous, rpc, rec,
                   file, pushed, pushret, dequeued, write_failed, deleted,
                   vbVars, strVars>>

\* recorder_init
RecorderInit ==
    /\ queue = <<>>
    /\ stopped = FALSE
    /\ failed = FALSE
    /\ header_written = FALSE
    /\ previous = NULL
    /\ rpc = "none"
    /\ rec = NULL
    /\ file = <<>>
    /\ pushed = <<>>
    /\ pushret = <<>>
    /\ dequeued = <<>>
    /\ write_failed = FALSE
    /\ deleted = <<>>
    /\ nomem = 0
    /\ last_failed = FALSE
    /\ trailer_failed = FALSE

\* ============================================================ video buffer
FrameObjects == {1, 2, 3}

\* video_buffer_init, then video_buffer_set_consumer_callbacks: three frame
\* objects, none referencing a picture; on_frame_skipped is optional.
VideoBufferInit ==
    /\ producer_frame = 1
    /\ pending_frame = 2
    /\ consumer_frame = 3
    /\ frames = [o \in FrameObjects |-> 0]
    /\ pending_frame_consumed = TRUE
    /\ has_on_frame_skipped \in BOOLEAN
    /\ ppc = "idle"
    /\ skipped = FALSE
    /\ decoded = 0
    /\ published = 0
    /\ cb_log = <<>>
    /\ events = 0
    /\ taken = <<>>
    /\ avail_since_take = 0
    /\ take_assert_failed = FALSE

\* av_frame_unref
av_frame_unref(fs, o) == [fs EXCEPT ![o] = 0]

\* decoder_push, lines 58-62: the decoder emits a picture into the producer
\* slot and offers it.
ReceiveFrame(fs, n) == [fs EXCEPT ![producer_frame] = n]

\* offer_frame's critical section with a slip: the producer frame is
\* exchanged with the consumer frame.
OfferFrame_wrongslot ==
    /\ ppc = "offer"
    /\ frames' = av_frame_unref(frames, consumer_frame)
    /\ producer_frame' = consumer_frame
    /\ consumer_frame' = producer_frame
    /\ skipped' = ~pending_frame_consumed
    /\ pending_frame_consumed' = FALSE
    /\ published' = published + 1
    /\ ppc' = "callback"
    /\ UNCHANGED <<pending_frame, has_on_frame_skipped, decoded, cb_log,
                   events, taken, avail_since_take, take_assert_failed,
                   recVars, strVars>>

\* offer_frame's critical section with a slip: pending_frame_consumed is not
\* reset.
OfferFrame_keepconsumed ==
    /\ ppc = "offer"
    /\ frames' = av_frame_unref(frames, pending_frame)
    /\ producer_frame' = pending_frame
    /\ pending_frame' = producer_frame
    /\ skipped' = ~pending_frame_consumed
    /\ published' = published + 1
    /\ ppc' = "callback"
    /\ UNCHANGED <<pending_frame_consumed,
                   consumer_frame, has_on_frame_skipped, decoded, cb_log,
                   events, taken, avail_since_take, take_assert_failed,
                   recVars, strVars>>

\* offer_frame's critical section with a slip: an unconsumed pending frame
\* is kept and the new one dropped.
OfferFrame_firstwins ==
    /\ ppc = "offer"
    /\ IF pending_frame_consumed
       THEN /\ frames' = av_frame_unref(frames, pending_frame)
            /\ producer_frame' = pending_frame
            /\ pending_frame' = producer_frame
       ELSE UNCHANGED <<frames, producer_frame, pending_frame>>
    /\ skipped' = ~pending_frame_consumed
    /\ pending_frame_consumed' = FALSE
    /\ published' = published + 1
    /\ ppc' = "callback"
    /\ UNCHANGED <<consumer_frame, has_on_frame_skipped, decoded, cb_log,
                   events, taken, avail_since_take, take_assert_failed,
                   recVars, strVars>>

\* offer_frame's critical section with a slip: the frame never counts as
\* skipped.
OfferFrame_neverskipped ==
    /\ ppc = "offer"
    /\ frames' = av_frame_unref(frames, pending_frame)
    /\ producer_frame' = pending_frame
    /\ pending_frame' = producer_frame
    /\ skipped' = FALSE
    /\ pending_frame_consumed' = FALSE
    /\ published' = published + 1
    /\ ppc' = "callback"
    /\ UNCHANGED <<consumer_frame, has_on_frame_skipped, decoded, cb_log,
                   events, taken, avail_since_take, take_assert_failed,
                   recVars, strVars>>

\* video_buffer_producer_offer_frame, lines 80-88 (the critical section).
OfferFrameLocked ==
    /\ ppc = "offer"
    /\ frames' = av_frame_unref(frames, pending_frame)
    /\ producer_frame' = pending_frame
    /\ pending_frame' = producer_frame
    /\ skipped' = ~pending_frame_consumed
    /\ pending_frame_consumed' = FALSE
    /\ published' = published + 1
    /\ ppc' = "callback"
    /\ UNCHANGED <<consumer_frame, has_on_frame_skipped, decoded, cb_log,
                   events, taken, avail_since_take, take_assert_failed,
                   recVars, strVars>>

\* The callbacks offer_frame invokes with a slip: on_frame_available is
\* invoked for every frame, on_frame_skipped in addition for a skipped one.
Callbacks_both(skip, has_skipped) ==
    IF skip /\ has_skipped THEN <<"available", "skipped">>
                           ELSE <<"available">>

\* video_buffer_producer_offer_frame, lines 90-95: the callbacks invoked.
Callbacks(skip, has_skipped) ==
    IF skip
    THEN IF has_skipped THEN <<"skipped">> ELSE <<>>
    ELSE <<"available">>

Count(seq, x) == Cardinality({i \in DOMAIN seq : seq[i] = x})

\* video_buffer_producer_offer_frame, lines 90-96 (outside the mutex).
OfferFrameCallback ==
    /\ ppc = "callback"
    /\ LET calls == Callbacks(skipped, has_on_frame_skipped)
       IN  /\ cb_log' = Append(cb_log, [skipped |-> skipped, calls |-> calls])
           /\ events' = events + Count(calls, "available")
           /\ avail_since_take' = avail_since_take + Count(calls, "available")
    /\ ppc' = "idle"
    /\ UNCHANGED <<producer_frame, pending_frame, consumer_frame, frames,
                   pending_frame_consumed, has_on_frame_skipped, skipped,
                   decoded, published, taken, take_assert_failed,
                   recVars, strVars>>

\* The consumer calls take_frame on receipt of an on_frame_available
\* notification, once per notification.
ConsumerNotified == events > 0

\* video_buffer_consumer_take_frame (one critical section).
TakeFrame ==
    /\ ConsumerNotified
    /\ events' = events - 1
    /\ take_assert_failed' = (take_assert_failed \/ pending_frame_consumed)
    /\ pending_frame_consumed' = TRUE
    /\ consumer_frame' = pending_frame
    /\ pending_frame' = consumer_frame
    /\ frames' = av_frame_unref(frames, consumer_frame)
    /\ taken' = Append(taken, [picture |-> frames[pending_frame],
                               latest |-> published])
    /\ avail_since_take' = 0
    /\ UNCHANGED <<producer_frame, has_on_frame_skipped, ppc, skipped, decoded,
                   published, cb_log,
                   recVars, strVars>>

\* The producer thread of SpecVB: the decoder emits the next picture and
\* calls offer_frame.
ProducerOffer ==
    /\ ppc = "idle"
    /\ decoded < MaxOffers
    /\ decoded' = decoded + 1
    /\ frames' = ReceiveFrame(frames, decoded + 1)
    /\ ppc' = "offer"
    /\ UNCHANGED <<producer_frame, pending_frame, consumer_frame,
                   pending_frame_consumed, has_on_frame_skipped, skipped,
                   published, cb_log, events, taken, avail_since_take,
                   take_assert_failed,
                   recVars, strVars>>

\* ================================================================= stream
\* NO_PTS: UINT64_C(-1), all ones in the timestamp width.
NO_PTS == 2^PtsBits - 1

\* The pts field of a meta-header: the sentinel or a timestamp.
HeaderPts == {NO_PTS} \cup (1..MaxPts)

\* process_packet, lines 85-86: the uint64_t pts stored in the int64_t
\* packet->pts.
ToInt64(u) == IF u >= 2^(PtsBits - 1) THEN u - 2^PtsBits ELSE u

\* stream_init: the sinks are attached or not.
StreamInit ==
    /\ has_decoder \in BOOLEAN
    /\ has_recorder \in BOOLEAN
    /\ receiver_pts = NO_PTS
    /\ codec_ctx = FALSE
    /\ spc = "start"
    /\ parse_left = 0
    /\ bufs = 0
    /\ received = <<>>
    /\ delivered = <<>>
    /\ sink_log = <<>>
    /\ exit_path = "none"
    /\ stop_events = 0

\* No stream thread is started.
StreamAbsent ==
    /\ has_decoder = FALSE
    /\ has_recorder = FALSE
    /\ receiver_pts = NO_PTS
    /\ codec_ctx = FALSE
    /\ spc = "none"
    /\ parse_left = 0
    /\ bufs = 0
    /\ received = <<>>
    /\ delivered = <<>>
    /\ sink_log = <<>>
    /\ exit_path = "none"
    /\ stop_events = 0

\* run_stream lines 144-148 with a slip: the failure returns without
\* posting the event.
StreamFindDecoder_return ==
    /\ spc = "start"
    /\ \E ok \in BOOLEAN :
         IF ok THEN spc' = "alloc_ctx" /\ exit_path' = exit_path
               ELSE spc' = "done" /\ exit_path' = "decoder_not_found"
    /\ UNCHANGED <<has_decoder, has_recorder, receiver_pts, codec_ctx,
                   parse_left, bufs, received, delivered, sink_log,
                   stop_events, recVars, vbVars>>

\* run_stream lines 144-148: avcodec_find_decoder.
StreamFindDecoder ==
    /\ spc = "start"
    /\ \E ok \in BOOLEAN :
         IF ok THEN spc' = "alloc_ctx" /\ exit_path' = exit_path
               ELSE spc' = "end" /\ exit_path' = "decoder_not_found"
    /\ UNCHANGED <<has_decoder, has_recorder, receiver_pts, codec_ctx,
                   parse_left, bufs, received, delivered, sink_log,
                   stop_events, recVars, vbVars>>

\* run_stream lines 150-154: avcodec_alloc_context3.
StreamAllocCtx ==
    /\ spc = "alloc_ctx"
    /\ \E ok \in BOOLEAN :
         IF ok THEN /\ codec_ctx' = TRUE
                    /\ sink_log' = Append(sink_log, "ctx_alloc")
                    /\ spc' = "open_decoder"
                    /\ exit_path' = exit_path
               ELSE /\ spc' = "end"
                    /\ exit_path' = "ctx_alloc_failure"
                    /\ UNCHANGED <<codec_ctx, sink_log>>
    /\ UNCHANGED <<has_decoder, has_recorder, receiver_pts, parse_left, bufs,
                   received, delivered, stop_events, recVars, vbVars>>

\* run_stream lines 156-159 with a slip: a failed decoder_open jumps to
\* finally_close_decoder.
StreamOpenDecoder_closes ==
    /\ spc = "open_decoder"
    /\ IF has_decoder
       THEN \E ok \in BOOLEAN :
              IF ok THEN /\ sink_log' = Append(sink_log, "decoder_open")
                         /\ spc' = "open_recorder"
                         /\ exit_path' = exit_path
                    ELSE /\ spc' = "close_decoder"
                         /\ exit_path' = "decoder_open_failure"
                         /\ sink_log' = sink_log
       ELSE /\ spc' = "open_recorder"
            /\ UNCHANGED <<sink_log, exit_path>>
    /\ UNCHANGED <<has_decoder, has_recorder, receiver_pts, codec_ctx,
                   parse_left, bufs, received, delivered, stop_events,
                   recVars, vbVars>>

\* run_stream lines 156-159: decoder_open (decoder.c lines 19-42), if a
\* decoder is attached.
StreamOpenDecoder ==
    /\ spc = "open_decoder"
    /\ IF has_decoder
       THEN \E ok \in BOOLEAN :
              IF ok THEN /\ sink_log' = Append(sink_log, "decoder_open")
                         /\ spc' = "open_recorder"
                         /\ exit_path' = exit_path
                    ELSE /\ spc' = "free_ctx"
                         /\ exit_path' = "decoder_open_failure"
                         /\ sink_log' = sink_log
       ELSE /\ spc' = "open_recorder"
            /\ UNCHANGED <<sink_log, exit_path>>
    /\ UNCHANGED <<has_decoder, has_recorder, receiver_pts, codec_ctx,
                   parse_left, bufs, received, delivered, stop_events,
                   recVars, vbVars>>

\* run_stream lines 161-169: recorder_open, if a recorder is attached (it
\* starts the recorder thread), then the parser.
StreamOpenRecorder ==
    /\ spc = "open_recorder"
    /\ IF has_recorder
       THEN \E ok \in BOOLEAN :
              IF ok THEN /\ sink_log' = Append(sink_log, "recorder_open")
                         /\ rpc' = "lock"
                         /\ spc' = "recv"
                         /\ exit_path' = exit_path
                    ELSE /\ spc' = "close_decoder"
                         /\ exit_path' = "recorder_open_failure"
                         /\ UNCHANGED <<sink_log, rpc>>
       ELSE /\ spc' = "recv"
            /\ UNCHANGED <<sink_log, exit_path, rpc>>
    /\ UNCHANGED <<nomem, last_failed, trailer_failed,
                   has_decoder, has_recorder, receiver_pts, codec_ctx,
                   parse_left, bufs, received, delivered, stop_events,
                   queue, stopped, failed, header_written, previous, rec,
                   file, cpc, pushed, pushret, dequeued, write_failed,
                   deleted, vbVars>>

\* stream_recv_packet (lines 25-68) and its test in run_stream (lines
\* 174-178). what is what the socket and the allocator do:
\*   "eos"    fewer than 12 bytes of header: end of stream or read error
\*   "nomem"  the header is read, av_malloc fails
\*   "short"  the header is read, the buffer allocated, the payload cut
\*   "item"   a whole item
StreamRecv ==
    /\ spc = "recv"
    /\ \E what \in {"eos", "nomem", "short", "item"}, pts \in HeaderPts :
         /\ what # "eos" => Len(received) < MaxItems
         /\ what = "eos" => pts = NO_PTS
         /\ receiver_pts' = IF what = "eos" THEN receiver_pts ELSE pts
         /\ received' = IF what = "eos" THEN received
                        ELSE Append(received, pts)
         /\ bufs' = IF what \in {"short", "item"} THEN bufs + 1 ELSE bufs
         /\ IF what = "item"
            THEN spc' = "parse" /\ exit_path' = exit_path
            ELSE /\ spc' = "close_recorder"
                 /\ exit_path' = IF what = "eos" THEN "end_of_stream"
                                 ELSE "read_error"
    /\ UNCHANGED <<has_decoder, has_recorder, codec_ctx, parse_left,
                   delivered, sink_log, stop_events, recVars, vbVars>>

\* stream_parse, lines 100-106: a payload that came with NO_PTS violates the
\* SDL_assert (the process stops there when assertions are compiled in) and
\* is not parsed otherwise; for any other payload the parser emits packets.
StreamParse ==
    /\ spc = "parse"
    /\ IF receiver_pts = NO_PTS
       THEN /\ spc' \in {"abort", "free"}
            /\ parse_left' = 0
       ELSE \E n \in 0..MaxNal :
              /\ parse_left' = n
              /\ spc' = IF n > 0 THEN "packet" ELSE "free"
    /\ UNCHANGED <<has_decoder, has_recorder, receiver_pts, codec_ctx, bufs,
                   received, delivered, sink_log, exit_path, stop_events,
                   recVars, vbVars>>

\* process_packet lines 79-82 and decoder_push (decoder.c lines 51-68):
\*   "send_error"  avcodec_send_packet fails
\*   "frame"       a frame is received and offered to the video buffer
\*   "again"       no frame yet
\*   "error"       avcodec_receive_frame fails
StreamDecoderPush ==
    /\ spc = "packet"
    /\ IF has_decoder
       THEN \E what \in {"send_error", "frame", "again", "error"} :
              /\ spc' = CASE what = "frame" -> "offering"
                          [] what = "again" -> "record"
                          [] OTHER -> "close_recorder"
              /\ exit_path' = IF what \in {"send_error", "error"}
                              THEN "sink_failure" ELSE exit_path
              /\ IF what = "frame"
                 THEN /\ decoded' = decoded + 1
                      /\ frames' = ReceiveFrame(frames, decoded + 1)
                      /\ ppc' = "offer"
                 ELSE UNCHANGED <<decoded, frames, ppc>>
       ELSE /\ spc' = "record"
            /\ UNCHANGED <<exit_path, decoded, frames, ppc>>
    /\ UNCHANGED <<has_decoder, has_recorder, receiver_pts, codec_ctx,
                   parse_left, bufs, received, delivered, sink_log,
                   stop_events, recVars,
                   producer_frame, pending_frame, consumer_frame,
                   pending_frame_consumed, has_on_frame_skipped, skipped,
                   published, cb_log, events, taken, avail_since_take,
                   take_assert_failed>>

\* decoder_push returns true once offer_frame has returned.
StreamDecoderPushed ==
    /\ spc = "offering"
    /\ ppc = "idle"
    /\ spc' = "record"
    /\ UNCHANGED <<has_decoder, has_recorder, receiver_pts, codec_ctx,
                   parse_left, bufs, received, delivered, sink_log, exit_path,
                   stop_events, recVars, vbVars>>

\* process_packet lines 84-95 and stream_parse lines 127-133: the packet
\* gets the pts of the meta-header and is written by recorder_write, called
\* on the stream thread; a failure leaves the receive loop without freeing
\* the payload.
StreamRecord ==
    /\ spc = "record"
    /\ IF has_recorder
       THEN \E io \in BOOLEAN :
              LET packet == [id |-> Len(delivered) + 1,
                             pts |-> ToInt64(receiver_pts), duration |-> 0]
                  w == recorder_write(header_written, file, packet, io)
              IN  /\ delivered' = Append(delivered,
                          [item |-> Len(received), pts |-> packet.pts])
                  /\ header_written' = w.hw
                  /\ file' = w.file
                  /\ write_failed' = (write_failed \/ ~w.ok)
                  /\ IF w.ok
                     THEN /\ parse_left' = parse_left - 1
                          /\ spc' = IF parse_left > 1 THEN "packet" ELSE "free"
                          /\ exit_path' = exit_path
                     ELSE /\ parse_left' = parse_left
                          /\ spc' = "close_recorder"
                          /\ exit_path' = "sink_failure"
       ELSE /\ parse_left' = parse_left - 1
            /\ spc' = IF parse_left > 1 THEN "packet" ELSE "free"
            /\ UNCHANGED <<delivered, header_written, file, write_failed,
                           exit_path>>
    /\ UNCHANGED <<nomem, last_failed, trailer_failed,
                   has_decoder, has_recorder, receiver_pts, codec_ctx, bufs,
                   received, sink_log, stop_events,
                   queue, stopped, failed, previous, rpc, rec, cpc, pushed,
                   pushret, dequeued, deleted, vbVars>>

\* run_stream line 186: av_free(data).
StreamFree ==
    /\ spc = "free"
    /\ bufs' = bufs - 1
    /\ spc' = "recv"
    /\ UNCHANGED <<has_decoder, has_recorder, receiver_pts, codec_ctx,
                   parse_left, received, delivered, sink_log, exit_path,
                   stop_events, recVars, vbVars>>

\* run_stream lines 191-194 and recorder_close lines 278-281: stopped is set
\* and the condition signalled, under the mutex.
StreamCloseRecorder ==
    /\ spc = "close_recorder"
    /\ IF has_recorder
       THEN /\ stopped' = TRUE
            /\ rpc' = Signalled(rpc)
            /\ spc' = "join_recorder"
       ELSE /\ spc' = "close_decoder"
            /\ UNCHANGED <<stopped, rpc>>
    /\ UNCHANGED <<nomem, last_failed, trailer_failed,
                   has_decoder, has_recorder, receiver_pts, codec_ctx,
                   parse_left, bufs, received, delivered, sink_log, exit_path,
                   stop_events,
                   queue, failed, header_written, previous, rec, file, cpc,
                   pushed, pushret, dequeued, write_failed, deleted, vbVars>>

\* recorder_close lines 283-286: the join returns once the recorder thread
\* has ended.
StreamJoinRecorder ==
    /\ spc = "join_recorder"
    /\ rpc = "done"
    /\ sink_log' = Append(sink_log, "recorder_close")
    /\ spc' = "close_decoder"
    /\ UNCHANGED <<has_decoder, has_recorder, receiver_pts, codec_ctx,
                   parse_left, bufs, received, delivered, exit_path,
                   stop_events, recVars, vbVars>>

\* run_stream lines 195-198: decoder_close, if a decoder is attached.
StreamCloseDecoder ==
    /\ spc = "close_decoder"
    /\ sink_log' = IF has_decoder THEN Append(sink_log, "decoder_close")
                   ELSE sink_log
    /\ spc' = "free_ctx"
    /\ UNCHANGED <<has_decoder, has_recorder, receiver_pts, codec_ctx,
                   parse_left, bufs, received, delivered, exit_path,
                   stop_events, recVars, vbVars>>

\* run_stream lines 199-200: avcodec_free_context.
StreamFreeCtx ==
    /\ spc = "free_ctx"
    /\ codec_ctx' = FALSE
    /\ sink_log' = Append(sink_log, "ctx_free")
    /\ spc' = "end"
    /\ UNCHANGED <<has_decoder, has_recorder, receiver_pts, parse_left, bufs,
                   received, delivered, exit_path, stop_events, recVars,
                   vbVars>>

\* run_stream lines 201-203 and notify_stopped: the event is pushed and the
\* thread returns.
StreamNotifyStopped ==
    /\ spc = "end"
    /\ stop_events' = stop_events + 1
    /\ spc' = "done"
    /\ UNCHANGED <<has_decoder, has_recorder, receiver_pts, codec_ctx,
                   parse_left, bufs, received, delivered, sink_log, exit_path,
                   recVars, vbVars>>

\* SpecRec: the recorder and its client; the video buffer is not used.
InitRec ==
    /\ RecorderInit /\ cpc = "open"
    /\ VideoBufferInit /\ has_on_frame_skipped
    /\ StreamAbsent

RecorderThread ==
    RecWait \/ RecStop \/ RecTake \/ RecProcess \/ RecFail \/ RecLast \/ RecFinal

NextRec ==
    \/ RecWait \/ RecStop \/ RecTake \/ RecProcess \/ RecFail \/ RecLast
    \/ RecFinal
    \/ RecorderOpen \/ RecorderPush \/ RecorderClose \/ RecorderJoin

SpecRec == InitRec /\ [][NextRec]_vars

\* SpecVB: the video buffer, its producer and its consumer; no recorder.
InitVB ==
    /\ VideoBufferInit
    /\ RecorderInit /\ cpc = "none"
    /\ StreamAbsent

NextVB ==
    \/ ProducerOffer \/ OfferFrameLocked \/ OfferFrameCallback
    \/ TakeFrame

SpecVB == InitVB /\ [][NextVB]_vars

\* SpecStream: the stream thread, the recorder thread it starts and the
\* consumer of the video buffer.  run_stream hands packets to recorder_write
\* itself and never calls recorder_push, so the queue stays empty and the
\* recorder thread only waits, stops and finalizes.
InitStream ==
    /\ StreamInit
    /\ RecorderInit /\ cpc = "none"
    /\ VideoBufferInit

NextStream ==
    \/ StreamFindDecoder \/ StreamAllocCtx \/ StreamOpenDecoder
    \/ StreamOpenRecorder \/ StreamRecv \/ StreamParse \/ StreamDecoderPush
    \/ StreamDecoderPushed \/ StreamRecord \/ StreamFree
    \/ StreamCloseRecorder \/ StreamJoinRecorder \/ StreamCloseDecoder
    \/ StreamFreeCtx \/ StreamNotifyStopped
    \/ OfferFrameLocked \/ OfferFrameCallback \/ TakeFrame
    \/ RecWait \/ RecStop \/ RecLast \/ RecFinal

SpecStream == InitStream /\ [][NextStream]_vars


\* The steps of the stream thread (run_stream and what it calls, the video
\* buffer's producer side included) and of the recorder thread it starts.
StreamThread ==
    \/ StreamFindDecoder \/ StreamAllocCtx \/ StreamOpenDecoder
    \/ StreamOpenRecorder \/ StreamRecv \/ StreamParse \/ StreamDecoderPush
    \/ StreamDecoderPushed \/ StreamRecord \/ StreamFree
    \/ StreamCloseRecorder \/ StreamJoinRecorder \/ StreamCloseDecoder
    \/ StreamFreeCtx \/ StreamNotifyStopped
    \/ OfferFrameLocked \/ OfferFrameCallback

StreamRecorderThread == RecWait \/ RecStop \/ RecLast \/ RecFinal

\* SpecStream under fair scheduling: a thread that can take a step is not
\* left out forever.  Nothing is assumed of the consumer.
FairSpecStream ==
    /\ InitStream /\ [][NextStream]_vars
    /\ WF_vars(StreamThread)
    /\ WF_vars(StreamRecorderThread)

\* ======================================================= claims on SpecVB
\* C6 as stated: every completed offer_frame call has invoked exactly one
\* callback, exactly once.
C6_ExactlyOneCallback_AsStated ==
    \A i \in DOMAIN cb_log : Len(cb_log[i].calls) = 1

\* C6 as amended: every completed offer_frame call has invoked at most one
\* callback, at most once: on_frame_available exactly when the frame it
\* replaced had been consumed; otherwise on_frame_skipped if one is
\* registered, and no callback at all if none is.
C6_AtMostOneCallback ==
    /\ Len(cb_log) = IF ppc = "callback" THEN published - 1 ELSE published
    /\ \A i \in DOMAIN cb_log :
          cb_log[i].calls =
              IF ~cb_log[i].skipped THEN <<"available">>
              ELSE IF has_on_frame_skipped THEN <<"skipped">>
              ELSE <<>>

C6_Witness ==
    /\ Len(cb_log) >= 3
    /\ cb_log[1].calls = <<"available">>
    /\ cb_log[2].calls = <<>>
    /\ cb_log[3].calls = <<"available">>

\* C7: since the last take_frame at most one on_frame_available notification
\* was issued, and whenever the pending frame has not been consumed that
\* notification was issued or the producer is about to issue it.
C7_OneNotificationPerTake ==
    /\ avail_since_take <= 1
    /\ events = avail_since_take
    /\ ~pending_frame_consumed =>
          \/ avail_since_take = 1
          \/ (ppc = "callback" /\ ~skipped)

C7_Witness ==
    /\ taken # <<>>
    /\ ~pending_frame_consumed
    /\ avail_since_take = 1
    /\ \E i \in DOMAIN cb_log : cb_log[i].skipped

C18_TakeAssertionHolds ==
    /\ ~take_assert_failed
    /\ events > 0 => ~pending_frame_consumed
    /\ events <= 1

\* frames were taken, and an offer has left its critical section with its
\* on_frame_available callback still to come
C18_Witness ==
    /\ Len(taken) >= 2
    /\ ppc = "callback" /\ ~skipped
    /\ ~pending_frame_consumed
    /\ events = 0
    /\ ~take_assert_failed

FrameIdx == {k \in DOMAIN file : file[k].op = "frame"}

\* C1: the frames in the output file are in the order in which their packets
\* were handed to recorder_push: the arrival ranks of the frames written are
\* strictly increasing along the file (so no packet is written twice and no
\* two are exchanged), and each frame carries the timestamp of the packet
\* pushed with that rank.
C1_FileInArrivalOrder ==
    /\ \A i, j \in FrameIdx : i < j => file[i].id < file[j].id
    /\ \A k \in FrameIdx : /\ file[k].id \in DOMAIN pushed
                           /\ file[k].pts = pushed[file[k].id].pts

C1_Witness ==
    \E i, j \in FrameIdx : i < j /\ rpc = "done"

\* C2: for two packets dequeued one right after the other, both with a
\* timestamp, the first is written with duration next.pts - first.pts.
C2_DurationIsPtsDifference ==
    \A n \in 1..(Len(dequeued) - 1) :
        LET a == pushed[dequeued[n]]
            b == pushed[dequeued[n + 1]]
        IN  (a.pts # AV_NOPTS_VALUE /\ b.pts # AV_NOPTS_VALUE) =>
                \A k \in FrameIdx :
                    file[k].id = a.id => file[k].duration = b.pts - a.pts

C2_Witness ==
    \E n \in 1..(Len(dequeued) - 1) : \E k \in FrameIdx :
        /\ pushed[dequeued[n]].pts # AV_NOPTS_VALUE
        /\ pushed[dequeued[n + 1]].pts # AV_NOPTS_VALUE
        /\ file[k].id = dequeued[n]
        /\ file[k].duration # 0

\* The stream ended cleanly: the recorder was closed, its thread has ended and
\* no recorder_write call failed.
CleanEnd == stopped /\ rpc = "done" /\ ~write_failed

LastFrame == file[CHOOSE k \in FrameIdx : \A j \in FrameIdx : j <= k]

\* C3 as stated: after a clean end with at least one frame written, the last
\* frame of the file has duration 100000, whatever was pushed.
C3_LastFrameDuration_AsStated ==
    (CleanEnd /\ FrameIdx # {}) => LastFrame.duration = LAST_DURATION

\* C3 as amended: after a clean end with at least one frame written, if the
\* last packet the recorder dequeued carries a timestamp, the last frame of
\* the file is that packet, with duration 100000.
C3_LastFrameDuration ==
    (/\ CleanEnd
     /\ FrameIdx # {}
     /\ pushed[dequeued[Len(dequeued)]].pts # AV_NOPTS_VALUE)
    => /\ LastFrame.duration = LAST_DURATION
       /\ LastFrame.id = dequeued[Len(dequeued)]

C3_Witness ==
    /\ CleanEnd
    /\ Cardinality(FrameIdx) >= 2
    /\ pushed[dequeued[Len(dequeued)]].pts # AV_NOPTS_VALUE
    /\ LastFrame.duration = LAST_DURATION

\* C4: the header is written at most once and before anything else (exactly
\* once in a recording that ends without having failed), its extradata is
\* the first packet dequeued, and that packet is never written as a frame;
\* header_written tells whether the file has its header.
C4_HeaderFromFirstPacket ==
    /\ \A k \in DOMAIN file :
          file[k].op = "header" <=> k = 1
    /\ (rpc = "done" /\ ~failed) => (file # <<>> /\ file[1].op = "header")
    /\ file # <<>> => /\ dequeued # <<>>
                      /\ file[1].id = dequeued[1]
                      /\ file[1].pts = AV_NOPTS_VALUE
    /\ \A k \in FrameIdx : file[k].id # dequeued[1]
    /\ header_written <=> file # <<>>

C4_Witness ==
    /\ Len(file) >= 3
    /\ file[1].op = "header"
    /\ file[2].op = "frame"
    /\ file[3].op = "trailer"

\* C10: when a write fails in the recorder loop, the thread's next step sets
\* failed, leaves the queue empty and leaves the loop; once failed is set
\* nothing is written any more, the queue stays empty, and every
\* recorder_push returns false.
C10_WriteFailure ==
    [][ /\ (rpc = "fail" /\ rpc' # "fail") =>
              (failed' /\ queue' = <<>> /\ rpc' = "final" /\ file' = file)
        /\ rpc = "fail" => file' = file
        /\ failed => /\ failed'
                     /\ file' = file
                     /\ queue = <<>> /\ queue' = <<>>
                     /\ rpc' \in {"final", "done"}
                     /\ pushret' # pushret =>
                            pushret' = Append(pushret, FALSE)
      ]_vars

C10_Witness ==
    /\ failed /\ ~stopped
    /\ Len(pushed) > Len(dequeued)
    /\ pushret # <<>> /\ ~pushret[Len(pushret)]

\* =================================================== claims on SpecStream
\* C5 as stated: when the first item of the stream carries the sentinel pts,
\* the first packet handed to the attached recorder is parsed from that item
\* and has no pts.
C5_ConfigPacketFirst_AsStated ==
    (/\ has_recorder
     /\ received # <<>> /\ received[1] = NO_PTS
     /\ delivered # <<>>)
    => /\ delivered[1].item = 1
       /\ delivered[1].pts = AV_NOPTS_VALUE

\* C9: STREAM_STOPPED is posted at most once, and exactly once by the time
\* run_stream has returned, whichever way it left.
C9_StoppedPostedOnce ==
    /\ stop_events = IF spc = "done" THEN 1 ELSE 0
    /\ spc = "done" =>
          exit_path \in {"decoder_not_found", "ctx_alloc_failure",
                         "decoder_open_failure", "recorder_open_failure",
                         "end_of_stream", "read_error", "sink_failure"}

C9_Witness ==
    /\ spc = "done"
    /\ stop_events = 1
    /\ exit_path = "sink_failure"
    /\ has_recorder /\ has_decoder

\* ============================================= further claims on SpecRec
\* C11: when the first packet the recorder receives carries a pts, nothing is
\* ever written to the file (no header, no frame, no trailer), a write of
\* that packet in the loop is a write failure, and the recording ends with
\* failed set, whether or not other packets follow before the close.
C11_FirstPacketNotConfig ==
    (pushed # <<>> /\ pushed[1].pts # AV_NOPTS_VALUE)
    => /\ file = <<>>
       /\ ~header_written
       /\ ((Len(dequeued) >= 2 /\ rpc # "process") => write_failed)
       /\ ((Len(dequeued) >= 2 /\ rpc \notin {"process", "fail"}) => failed)
       /\ (rpc = "done" => failed)

\* the first packet has a pts and is the only one before the close
C11_Witness ==
    /\ rpc = "done"
    /\ Len(pushed) = 1 /\ pushed[1].pts # AV_NOPTS_VALUE
    /\ dequeued = <<1>>
    /\ failed
    /\ file = <<>>

\* C13: a call of recorder_push returns false only if failed was set when it
\* held the mutex or if the allocation of the record failed, and then the
\* queue is untouched; in every other case, a write about to fail included,
\* it returns true, appends exactly one record (the packet pushed) at the
\* tail of the queue and wakes the recorder thread if it is waiting.
C13_PushResult ==
    [][pushret' # pushret =>
         LET ret == pushret'[Len(pushret')]
             n   == Len(queue)
         IN  /\ Len(pushret') = Len(pushret) + 1
             /\ (failed => ~ret)
             /\ (~ret => /\ (failed \/ nomem' = nomem + 1)
                         /\ queue' = queue /\ pushed' = pushed /\ rpc' = rpc)
             /\ ((~failed /\ nomem' = nomem) => ret)
             /\ (ret => /\ ~failed /\ nomem' = nomem
                        /\ Len(queue') = n + 1
                        /\ SubSeq(queue', 1, n) = queue
                        /\ pushed' = Append(pushed, queue'[n + 1])
                        /\ queue'[n + 1].id = Len(pushed) + 1
                        /\ (rpc = "wait" => rpc' = "lock")
                        /\ (rpc # "wait" => rpc' = rpc))]_vars

\* a write has failed, failed is not set yet, and a record pushed
\* successfully is in the queue
C13_Witness ==
    /\ rpc = "fail" /\ ~failed
    /\ dequeued = <<1, 2>>
    /\ Len(queue) = 2
    /\ pushret = <<TRUE, TRUE, TRUE, TRUE>>

\* C14: the recorder thread never leaves its loop while a packet is queued,
\* also when stopped was set with packets still in the queue; so when the
\* recorder is closed after N packets were pushed, the first a config packet
\* and the others with a pts, and no write fails, every packet is processed:
\* the file holds the header, exactly the N-1 frames in order, then the
\* trailer, and the recording is successful.
C14_GracefulCloseDrains ==
    /\ (queue # <<>> => rpc \notin {"last", "final", "done"})
    /\ (/\ rpc = "done"
        /\ pushed # <<>>
        /\ pushed[1].pts = AV_NOPTS_VALUE
        /\ \A i \in 2..Len(pushed) : pushed[i].pts # AV_NOPTS_VALUE
        /\ ~write_failed /\ ~trailer_failed)
       => LET N == Len(pushed)
          IN  /\ ~failed
              /\ dequeued = [i \in 1..N |-> i]
              /\ Len(file) = N + 1
              /\ file[1].op = "header" /\ file[1].id = 1
              /\ \A k \in 2..N : /\ file[k].op = "frame"
                                 /\ file[k].id = k
                                 /\ file[k].pts = pushed[k].pts
              /\ file[N + 1] = Trailer

C14_Witness ==
    /\ rpc = "done" /\ ~failed
    /\ Len(pushed) = MaxPush
    /\ pushed[1].pts = AV_NOPTS_VALUE
    /\ \A i \in 2..Len(pushed) : pushed[i].pts # AV_NOPTS_VALUE
    /\ Cardinality(FrameIdx) = MaxPush - 1
    /\ file[Len(file)] = Trailer

TrailerIdx == {k \in DOMAIN file : file[k].op = "trailer"}

C20_LastWriteFailureHarmless_AsStated ==
    (rpc = "done" /\ last_failed /\ ~trailer_failed) => ~failed

\* C20 as amended: a failed write of the carry-slot packet does not set
\* failed itself; the recording then ends successful, with its trailer,
\* when the header was already written, that is when the carry slot held a
\* packet other than the first one received (and the trailer is written);
\* when it held the first packet received, no header is written and the
\* finalization marks the recording as failed.
C20_LastWriteFailure ==
    /\ (rpc = "final" /\ last_failed) => ~failed
    /\ (rpc = "done" /\ last_failed /\ ~trailer_failed) =>
          /\ failed <=> Len(dequeued) = 1
          /\ failed <=> ~header_written
          /\ ~failed => file[Len(file)] = Trailer

\* the header and a frame were written, the write of the last packet
\* failed and the recording ended successful
C20_Witness ==
    /\ rpc = "done"
    /\ last_failed /\ ~failed
    /\ Len(dequeued) = 3
    /\ Len(file) = 3 /\ file[3] = Trailer

\* ================================ claim on SpecStream (stream thread)
\* C12 as stated: the stream thread hands packets to the recorder only by
\* enqueuing them, never by calling recorder_write itself: every packet it
\* has handed over is a record appended by recorder_push.
C12_OnlyRecorderThreadWrites_AsStated ==
    /\ Len(delivered) <= Len(pushed)
    /\ \A i \in DOMAIN delivered : pushed[i].pts = delivered[i].pts

\* ====================================== claims on FairSpecStream
\* The socket has reported end of stream or a short read to run_stream.
EndOfStreamSeen == exit_path \in {"end_of_stream", "read_error"}

\* run_stream has returned with STREAM_STOPPED posted once; when a recorder
\* is attached, stopped has been set and the recorder thread has ended (the
\* join has returned).
StreamShutDown ==
    /\ spc = "done" /\ stop_events = 1
    /\ has_recorder => (stopped /\ rpc = "done")

\* C15: once the socket has reported end of stream or a short read, the
\* stream thread eventually leaves run_stream with the recorder closed and
\* joined and STREAM_STOPPED posted.  The report is never withdrawn (first
\* conjunct), so this is: from some point on, a run in which it was made
\* has shut down.
C15_ShutdownTerminates ==
    /\ [][EndOfStreamSeen => EndOfStreamSeen']_vars
    /\ <>[](EndOfStreamSeen => StreamShutDown)

\* the socket has reported end of stream with a recorder attached and its
\* thread blocked on the condition variable
C15_Witness ==
    /\ exit_path = "end_of_stream"
    /\ has_recorder
    /\ spc = "close_recorder"
    /\ rpc = "wait"

\* ========================================== further claims on SpecStream
SinkLogIdx(e) == {k \in DOMAIN sink_log : sink_log[k] = e}

\* C17: in run_stream a sink is closed at most once and only after its open
\* succeeded, the recorder before the decoder; once run_stream is at its end
\* label, a sink has been closed exactly when its open had succeeded, and
\* the codec context has been freed exactly when it had been allocated.  A
\* decoder_open failure closes no sink and a recorder_open failure closes
\* the decoder (if attached) and not the recorder.
C17_SinksClosedIffOpened ==
    /\ \A e \in {"ctx_alloc", "decoder_open", "recorder_open",
                 "recorder_close", "decoder_close", "ctx_free"} :
          Cardinality(SinkLogIdx(e)) <= 1
    /\ \A c \in SinkLogIdx("decoder_close") :
          \E o \in SinkLogIdx("decoder_open") : o < c
    /\ \A c \in SinkLogIdx("recorder_close") :
          \E o \in SinkLogIdx("recorder_open") : o < c
    /\ \A c \in SinkLogIdx("ctx_free") :
          \E o \in SinkLogIdx("ctx_alloc") : o < c
    /\ \A r \in SinkLogIdx("recorder_close"), d \in SinkLogIdx("decoder_close") :
          r < d
    /\ codec_ctx <=> (SinkLogIdx("ctx_alloc") # {} /\ SinkLogIdx("ctx_free") = {})
    /\ spc \in {"end", "done"} =>
          /\ SinkLogIdx("decoder_close") = {} <=> SinkLogIdx("decoder_open") = {}
          /\ SinkLogIdx("recorder_close") = {} <=> SinkLogIdx("recorder_open") = {}
          /\ SinkLogIdx("ctx_free") = {} <=> SinkLogIdx("ctx_alloc") = {}
          /\ ~codec_ctx
          /\ exit_path = "decoder_open_failure" =>
                sink_log = <<"ctx_alloc", "ctx_free">>
          /\ exit_path = "recorder_open_failure" =>
                sink_log = IF has_decoder
                           THEN <<"ctx_alloc", "decoder_open", "decoder_close",
                                  "ctx_free">>
                           ELSE <<"ctx_alloc", "ctx_free">>
          /\ exit_path \in {"end_of_stream", "read_error", "sink_failure"} =>
                /\ has_decoder <=> SinkLogIdx("decoder_open") # {}
                /\ has_recorder <=> SinkLogIdx("recorder_open") # {}

\* both sinks were opened, the stream ended, both were closed in reverse
\* order and the codec context freed
C17_Witness ==
    /\ spc = "done"
    /\ sink_log = <<"ctx_alloc", "decoder_open", "recorder_open",
                    "recorder_close", "decoder_close", "ctx_free">>

\* C22 as stated: once the recorder thread has exited, every record created
\* by a successful push has been deleted exactly once, and the queue holds
\* none.
C22_NoRecordLeaked_AsStated ==
    rpc = "done" =>
       /\ queue = <<>>
       /\ \A i \in DOMAIN pushed :
             Cardinality({k \in DOMAIN deleted : deleted[k] = pushed[i].id}) = 1

\* C21 as stated: by the time the stream thread posts STREAM_STOPPED every
\* payload buffer allocated by stream_recv_packet has been freed, whichever
\* way the receive loop was left.
C21_BuffersReleased_AsStated ==
    stop_events > 0 => bufs = 0

=============================================================================
